---- MODULE Spec2Model ----
(***************************************************************************)
(* Model of the rust-freely client library: the Client (session), the Api *)
(* wrapper (request executor), the top-level handlers and the Post and    *)
(* Collection handles.                                                    *)
(*                                                                        *)
(* Strings are sequences of tokens, so that concatenation, URL parsing    *)
(* and URL joining are computed and can be compared.  Option<T> is the    *)
(* empty sequence (None) or a one-element sequence (Some).  Every public  *)
(* operation is one action; the server's answers, and the environment's   *)
(* failures, are inputs of the action.                                    *)
(***************************************************************************)
EXTENDS Integers, Sequences, FiniteSets, TLC

VARIABLES client, postHandler, collHandler, post, coll, reqs, last

vars == <<client, postHandler, collHandler, post, coll, reqs, last>>

----------------------------------------------------------------------------
(* Bounds *)

\* Longest batch (items submitted, results answered) of a batch operation.
MaxItems == 2

----------------------------------------------------------------------------
(* Option and Result *)

None == <<>>

Some(x) == <<x>>

IsSome(o) == Len(o) = 1

Ok(v) == [tag |-> "Ok", value |-> v]

Err(e) == [tag |-> "Err", error |-> e]

\* An unwrap() of an Err or None value: the call unwinds, nothing is returned.
Panic == [tag |-> "Panic"]

IsOk(r) == r.tag = "Ok"

IsErr(r) == r.tag = "Err"

Unit == "unit"

\* ApiError
RequestErr(status) == [type |-> "Request", code |-> status]

AuthenticationError == [type |-> "AuthenticationError"]

UnknownError == [type |-> "UnknownError"]

UrlError == [type |-> "UrlError"]

ParseError(text) == [type |-> "ParseError", text |-> text]

ConnectionError == [type |-> "ConnectionError"]

LoggedOut == [type |-> "LoggedOut"]

UsageError == [type |-> "UsageError"]

----------------------------------------------------------------------------
(* Values the caller and the server can supply *)

Tokens == {"t1", "t2"}

OptTokens == {None} \cup {Some(t) : t \in Tokens}

\* Base URLs a caller can pass to Client::new (any String is accepted):
\* a plain origin, one with a trailing slash, one with a path component,
\* a string that is not a URL, and a URL that cannot be a base.
PlainBase == <<"http://", "h">>

SlashBase == <<"http://", "h", "/">>

PathBase == <<"http://", "h", "/", "blog">>

NotAUrl == <<"h">>

OpaqueBase == <<"mailto:", "h">>

Bases == {PlainBase, SlashBase, PathBase, NotAUrl, OpaqueBase}

ValidBases == {PlainBase, SlashBase, PathBase}

Client(base, token) == [base_url |-> base, token |-> token]

----------------------------------------------------------------------------
(* Client accessors *)

ClientUrl(c) == c.base_url

ClientToken(c) == c.token

is_authenticated(c) == IsSome(c.token)

----------------------------------------------------------------------------
(* Api wrapper: URL composition *)

Api(c) == [client |-> c]

ApiBase(api) == ClientUrl(api.client)

ApiToken(api) == ClientToken(api.client)

\* Url::parse: an absolute URL has a scheme; an http URL has a host and a
\* path, the empty path being normalised to "/".  An opaque URL (mailto:)
\* parses but cannot be a base.
UrlParse(s) ==
    IF Len(s) >= 2 /\ s[1] = "http://"
    THEN Ok([origin |-> SubSeq(s, 1, 2),
             path |-> IF Len(s) = 2 THEN <<"/">> ELSE SubSeq(s, 3, Len(s)),
             cannot_be_a_base |-> FALSE])
    ELSE IF Len(s) >= 2 /\ s[1] = "mailto:"
    THEN Ok([origin |-> SubSeq(s, 1, 1),
             path |-> SubSeq(s, 2, Len(s)),
             cannot_be_a_base |-> TRUE])
    ELSE Err(UrlError)

\* Url::join with a reference that starts with "/" (every reference here
\* starts with "/api"): the reference replaces the whole path of the base.
UrlJoin(u, ref) ==
    IF u.cannot_be_a_base
    THEN Err(UrlError)
    ELSE Ok([origin |-> u.origin, path |-> ref, cannot_be_a_base |-> FALSE])

\* The serialisation of a Url
UrlString(u) == u.origin \o u.path

ApiPrefix == <<"/api">>

url(api, endpoint) ==
    LET parsed == UrlParse(ApiBase(api)) IN
    IF IsOk(parsed)
    THEN LET joined == UrlJoin(parsed.value, ApiPrefix \o endpoint) IN
         IF IsOk(joined) THEN joined ELSE Err(UrlError)
    ELSE Err(UrlError)

----------------------------------------------------------------------------
(* Api wrapper: requests *)

\* A faulty variant of AuthHeader: the token is sent without the "Token " scheme
AuthHeaderBare(api) ==
    IF IsSome(ApiToken(api)) THEN Some(<<ApiToken(api)[1]>>) ELSE None

\* The Authorization header of a request: format!("Token {token}")
AuthHeader(api) ==
    IF IsSome(ApiToken(api)) THEN Some(<<"Token ", ApiToken(api)[1]>>) ELSE None

\* Api::request.  http_ok: whether the reqwest client could be built.
\* The record keeps the endpoint argument and the Client snapshot the
\* request was built from (endpoint, snap); neither is sent.
request(api, endpoint, method, http_ok) ==
    IF http_ok
    THEN LET u == url(api, endpoint) IN
         IF IsOk(u)
         THEN Ok([method |-> method,
                  url |-> UrlString(u.value),
                  auth |-> AuthHeader(api),
                  query |-> None,
                  body |-> None,
                  endpoint |-> endpoint,
                  snap |-> api.client])
         ELSE Err(UrlError)
    ELSE Err(UnknownError)

\* RequestBuilder::json
WithJson(req, data) == [req EXCEPT !.body = Some(data)]

\* RequestBuilder::query
WithQuery(req, q) == [req EXCEPT !.query = Some(q)]

----------------------------------------------------------------------------
(* The server's answers *)

\* Response text: not JSON of the envelope shape, or a {code, data} envelope
Garbage == [shape |-> "garbage"]

Envelope(d) == [shape |-> "envelope", code |-> 200, data |-> d]

\* JSON values that are no model of any type the library decodes
JsonNull == [json |-> "null"]

\* An HTTP response: its status, whether its body can be read to the end,
\* and the body's text.
Response(status, readable, text) ==
    [status |-> status, readable |-> readable, text |-> text]

ErrorStatuses == {401, 500}

\* One round trip as the environment decides it: whether the HTTP client
\* can be built, whether the transport delivers a response, and the response.
Outcome(http_ok, delivered, response) ==
    [http_ok |-> http_ok, delivered |-> delivered, response |-> response]

NoResponse == Response(0, FALSE, Garbage)

\* The outcomes of a round trip whose well-formed payloads are Data
Outcomes(Data) ==
    {Outcome(FALSE, FALSE, NoResponse), Outcome(TRUE, FALSE, NoResponse)}
    \cup {Outcome(TRUE, TRUE, Response(s, TRUE, Garbage)) : s \in ErrorStatuses}
    \cup {Outcome(TRUE, TRUE, Response(200, FALSE, Garbage)),
          Outcome(TRUE, TRUE, Response(200, TRUE, Garbage))}
    \cup {Outcome(TRUE, TRUE, Response(200, TRUE, Envelope(d))) :
             d \in Data \cup {JsonNull}}

----------------------------------------------------------------------------
(* Models: what the library decodes from the envelope's data *)

\* Post and Collection values a caller builds by hand (all fields are public)
NewPost(c, id, token, collection) ==
    [client |-> c, id |-> id, token |-> token, collection |-> collection]

NewCollection(c, alias) == [client |-> c, alias |-> alias]

\* responses::Login (the user field is not used by the library)
LoginJson(t) == [json |-> "login", access_token |-> t]

DecodeLogin(d) ==
    IF d.json = "login" THEN Ok([access_token |-> d.access_token]) ELSE Err(d)

\* A Client value a response body can carry: Post and Collection derive
\* Deserialize with their client field included.
ForeignClient == Client(<<"http://", "x">>, None)

\* Collection JSON the server can answer with, and its decoding
ServerCollections ==
    {NewCollection(None, "c1"), NewCollection(Some(ForeignClient), "c1")}

CollectionJson(c) == [json |-> "collection", collection |-> c]

DecodeCollection(d) ==
    IF d.json = "collection" THEN Ok(d.collection) ELSE Err(d)

\* Post JSON the server can answer with, and its decoding
ServerPosts ==
    {NewPost(None, "p1", None, None),
     NewPost(Some(ForeignClient), "p1", Some("pt"), Some(NewCollection(None, "c1")))}

PostJson(p) == [json |-> "post", post |-> p]

DecodePost(d) ==
    IF d.json = "post" THEN Ok(d.post) ELSE Err(d)

ArrayJson(items) == [json |-> "array", items |-> items]

\* users::User, the JSON the server answers /me with, and its decoding
NewUser(username, email) == [username |-> username, email |-> email]

ServerUsers == {NewUser("alice", None), NewUser("alice", Some("a@h"))}

UserJson(u) == [json |-> "user", user |-> u]

DecodeUser(d) ==
    IF d.json = "user" THEN Ok(d.user) ELSE Err(d)

\* () decodes from null only
DecodeUnit(d) == IF d.json = "null" THEN Ok(Unit) ELSE Err(d)

\* MovePost::new and the MovePost literal of Post::move_to
MovePost(id, token) == [id |-> id, token |-> token]

MovePostNew(id) == MovePost(id, None)

\* MoveResult and PinResult
Success(code, payload) == [variant |-> "Success", code |-> code, payload |-> payload]

Error(code, error_msg) == [variant |-> "Error", code |-> code, error_msg |-> error_msg]

\* A per-item result on the wire: an object with a code and, present or
\* not, a payload (post or id) and an error_msg.  No field names the variant.
WireResult(code, payload, error_msg) ==
    [json |-> "result", code |-> code, payload |-> payload, error_msg |-> error_msg]

\* #[serde(untagged)]: the Success shape is tried first, then the Error shape
DecodeResult(d) ==
    IF d.json # "result" THEN Err(d)
    ELSE IF IsSome(d.payload) THEN Ok(Success(d.code, d.payload[1]))
    ELSE IF IsSome(d.error_msg) THEN Ok(Error(d.code, d.error_msg[1]))
    ELSE Err(d)

\* serde_json::from_value::<T> for the types that are no Vec
DecodeItem(T, d) ==
    CASE T = "Login" -> DecodeLogin(d)
      [] T = "Post" -> DecodePost(d)
      [] T = "Collection" -> DecodeCollection(d)
      [] T = "()" -> DecodeUnit(d)
      [] T = "User" -> DecodeUser(d)
      [] T \in {"MoveResult", "PinResult"} -> DecodeResult(d)

\* Vec<T> decoded item by item: one item that does not decode fails the whole
DecodeVec(T, d) ==
    IF d.json = "array" /\ \A i \in 1..Len(d.items) : IsOk(DecodeItem(T, d.items[i]))
    THEN Ok([i \in 1..Len(d.items) |-> DecodeItem(T, d.items[i]).value])
    ELSE Err(d)

\* serde_json::from_value::<T>, T named as the caller's turbofish names it
Decode(T, d) ==
    CASE T = "Vec<Post>" -> DecodeVec("Post", d)
      [] T = "Vec<MoveResult>" -> DecodeVec("MoveResult", d)
      [] T = "Vec<PinResult>" -> DecodeVec("PinResult", d)
      [] OTHER -> DecodeItem(T, d)

----------------------------------------------------------------------------
(* Api wrapper: responses *)

\* Response::error_for_status: client and server error statuses are errors
IsErrorStatus(status) == status >= 400 /\ status <= 599

\* serde_json::from_str::<ResponseModel>
ParseEnvelope(text) ==
    IF text.shape = "envelope" THEN Ok(text) ELSE Err(ParseError(text))

\* A faulty variant of extract_response: the body is parsed before the status
\* is looked at
extract_responseBodyFirst(T, response) ==
    IF ~response.readable
    THEN Panic
    ELSE LET model == ParseEnvelope(response.text) IN
         IF ~IsOk(model)
         THEN Err(ParseError(response.text))
         ELSE IF IsErrorStatus(response.status)
         THEN Err(RequestErr(response.status))
         ELSE LET v == Decode(T, model.value.data) IN
              IF IsOk(v) THEN v ELSE Err(ParseError(response.text))

extract_response(T, response) ==
    IF IsErrorStatus(response.status)
    THEN Err(RequestErr(response.status))
    ELSE IF ~response.readable
    THEN Panic
    ELSE LET model == ParseEnvelope(response.text) IN
         IF IsOk(model)
         THEN LET v == Decode(T, model.value.data) IN
              IF IsOk(v) THEN v ELSE Err(ParseError(response.text))
         ELSE Err(ParseError(response.text))

\* The result of an executor call: the value returned, the requests sent
\* and the responses received (one per request sent; NoResponse when the
\* transport failed).
Trip(result, sent, got) == [result |-> result, sent |-> sent, got |-> got]

\* RequestBuilder::send followed by extract_response
SendAndExtract(req, T, o) ==
    IF o.delivered
    THEN Trip(extract_response(T, o.response), <<req>>, <<o.response>>)
    ELSE Trip(Err(ConnectionError), <<req>>, <<NoResponse>>)

\* A faulty variant of get: a request the transport did not deliver is sent again
getRetrying(api, endpoint, T, o) ==
    LET r == request(api, endpoint, "GET", o.http_ok) IN
    IF IsOk(r)
    THEN IF o.delivered
         THEN SendAndExtract(r.value, T, o)
         ELSE Trip(Err(ConnectionError), <<r.value, r.value>>,
                   <<NoResponse, NoResponse>>)
    ELSE Trip(r, <<>>, <<>>)

get(api, endpoint, T, o) ==
    LET r == request(api, endpoint, "GET", o.http_ok) IN
    IF IsOk(r)
    THEN SendAndExtract(r.value, T, o)
    ELSE Trip(r, <<>>, <<>>)

delete(api, endpoint, o) ==
    LET r == request(api, endpoint, "DELETE", o.http_ok) IN
    IF IsOk(r)
    THEN IF o.delivered
         THEN IF IsErrorStatus(o.response.status)
              THEN Trip(Err(RequestErr(o.response.status)), <<r.value>>, <<o.response>>)
              ELSE Trip(Ok(Unit), <<r.value>>, <<o.response>>)
         ELSE Trip(Err(ConnectionError), <<r.value>>, <<NoResponse>>)
    ELSE Trip(r, <<>>, <<>>)

apipost(api, endpoint, T, data, o) ==
    LET r == request(api, endpoint, "POST", o.http_ok) IN
    IF IsOk(r)
    THEN SendAndExtract(WithJson(r.value, data), T, o)
    ELSE Trip(r, <<>>, <<>>)

----------------------------------------------------------------------------
(* Requests the Client sends and handles it attaches itself to *)

\* requests::Login
Usernames == {"alice"}

Passwords == {"pw"}

LoginRequest(username, password) == [alias |-> username, pass |-> password]

\* Post::with_client and Collection::with_client
with_client(x, c) == [x EXCEPT !.client = Some(c)]

\* .and_then(|mut v| Ok(v.with_client(client.clone())))
Attach(trip, c) ==
    IF IsOk(trip.result)
    THEN [trip EXCEPT !.result = Ok(with_client(trip.result.value, c))]
    ELSE trip

----------------------------------------------------------------------------
(* State *)

\* What the last operation was called on and with, what it returned and
\* which responses it received; reqs holds the requests it sent.
Last(op, self, args, trip) ==
    [op |-> op, self |-> self, args |-> args, result |-> trip.result, got |-> trip.got]

\* An operation that returns before building any request
NoTrip(result) == Trip(result, <<>>, <<>>)

\* PostHandler::new and CollectionHandler::new
HandlerNew(c) == [client |-> c]

\* Client::new
ClientNew(base) == Client(base, None)

Init ==
    /\ client \in {ClientNew(b) : b \in Bases}
    /\ postHandler = HandlerNew(client)
    /\ collHandler = HandlerNew(client)
    /\ post = NewPost(None, "p1", None, None)
    /\ coll = NewCollection(None, "c1")
    /\ reqs = <<>>
    /\ last = Last("new", client, <<>>, NoTrip(Ok(client)))

----------------------------------------------------------------------------
(* Client *)

\* A faulty variant of AuthTokenResult: a token already held is not replaced
AuthTokenResultKeepsOld(c, t) ==
    IF IsSome(c.token) THEN Ok(c) ELSE Ok([c EXCEPT !.token = Some(t)])

\* Client::authenticate, Auth::Token arm: the value returned
AuthTokenResult(c, t) == Ok([c EXCEPT !.token = Some(t)])

\* A faulty variant of AuthLoginTrip: the access token is not stored
AuthLoginTripStoresNothing(c, username, password, o) ==
    LET trip == apipost(Api(c), <<"/auth/login">>, "Login",
                        LoginRequest(username, password), o) IN
    IF IsOk(trip.result) THEN [trip EXCEPT !.result = Ok(c)] ELSE trip

\* Client::authenticate, Auth::Login arm: the round trip
AuthLoginTrip(c, username, password, o) ==
    LET trip == apipost(Api(c), <<"/auth/login">>, "Login",
                        LoginRequest(username, password), o) IN
    IF IsOk(trip.result)
    THEN [trip EXCEPT !.result =
              Ok([c EXCEPT !.token = Some(trip.result.value.access_token)])]
    ELSE trip

\* A faulty variant of LogoutTrip: the DELETE is sent without checking for a token
LogoutTripUnguarded(c, o) ==
    LET trip == delete(Api(c), <<"/auth/me">>, o) IN
    IF IsOk(trip.result)
    THEN [trip EXCEPT !.result = Ok([c EXCEPT !.token = None])]
    ELSE trip

\* A faulty variant of LogoutTrip: the token is cleared whatever the DELETE returns
LogoutTripAlwaysClears(c, o) ==
    IF is_authenticated(c)
    THEN LET trip == delete(Api(c), <<"/auth/me">>, o) IN
         [trip EXCEPT !.result = Ok([c EXCEPT !.token = None])]
    ELSE NoTrip(Err(LoggedOut))

\* Client::logout: the round trip
LogoutTrip(c, o) ==
    IF is_authenticated(c)
    THEN LET trip == delete(Api(c), <<"/auth/me">>, o) IN
         IF IsOk(trip.result)
         THEN [trip EXCEPT !.result = Ok([c EXCEPT !.token = None])]
         ELSE trip
    ELSE NoTrip(Err(LoggedOut))

\* A faulty variant of Commit: the new token is in the returned Client only
CommitReturnsOnly(op, args, trip) ==
    /\ client' = client
    /\ reqs' = trip.sent
    /\ last' = Last(op, client, args, trip)
    /\ UNCHANGED <<postHandler, collHandler, post, coll>>

\* authenticate and logout take &mut self: on success they assign the token
\* of the Client they are called on and return a clone of it.
Commit(op, args, trip) ==
    /\ client' = IF IsOk(trip.result) THEN trip.result.value ELSE client
    /\ reqs' = trip.sent
    /\ last' = Last(op, client, args, trip)
    /\ UNCHANGED <<postHandler, collHandler, post, coll>>

AuthenticateToken ==
    \E t \in Tokens :
        Commit("authenticate_token", <<t>>, NoTrip(AuthTokenResult(client, t)))

AuthenticateLogin ==
    \E u \in Usernames, p \in Passwords, o \in Outcomes({LoginJson(t) : t \in Tokens}) :
        Commit("authenticate_login", <<u, p>>, AuthLoginTrip(client, u, p, o))

Logout ==
    \E o \in Outcomes({}) :
        Commit("logout", <<>>, LogoutTrip(client, o))

SessionNext ==
    \/ AuthenticateToken
    \/ AuthenticateLogin
    \/ Logout

SessionSpec == Init /\ [][SessionNext]_vars

----------------------------------------------------------------------------
(* Handlers *)

\* Client::posts
Posts ==
    /\ postHandler' = HandlerNew(client)
    /\ reqs' = <<>>
    /\ last' = Last("posts", client, <<>>, NoTrip(Ok(postHandler')))
    /\ UNCHANGED <<client, collHandler, post, coll>>

\* Client::collections
Collections ==
    /\ collHandler' = HandlerNew(client)
    /\ reqs' = <<>>
    /\ last' = Last("collections", client, <<>>, NoTrip(Ok(collHandler')))
    /\ UNCHANGED <<client, postHandler, post, coll>>

\* handlers::UserHandler
UserHandler(c, current) == [client |-> c, current |-> current]

\* UserHandler::new returns Self: Ok is the value returned.  Err(_) of the
\* GET becomes current: None; a panic inside the GET unwinds through new.
UserHandlerNewTrip(c, o) ==
    IF is_authenticated(c)
    THEN LET trip == get(Api(c), <<"/me">>, "User", o) IN
         IF IsOk(trip.result)
         THEN [trip EXCEPT !.result = Ok(UserHandler(c, Some(trip.result.value)))]
         ELSE IF IsErr(trip.result)
         THEN [trip EXCEPT !.result = Ok(UserHandler(c, None))]
         ELSE trip
    ELSE NoTrip(Ok(UserHandler(c, None)))

\* UserHandler::info
info(h) == h.current

\* Client::user
ClientUserTrip(c, o) ==
    IF is_authenticated(c)
    THEN UserHandlerNewTrip(c, o)
    ELSE NoTrip(Err(LoggedOut))

Aliases == {"c1"}

OptAliases == {None} \cup {Some(a) : a \in Aliases}

Titles == {"title"}

OptTitles == {None} \cup {Some(t) : t \in Titles}

\* handlers::CollectionParameters
CollectionParameters(alias, title) == [alias |-> alias, title |-> title]

\* A faulty variant of CollectionCreateTrip: authentication is checked first
CollectionCreateTripAuthFirst(h, alias, title, o) ==
    IF ~is_authenticated(h.client)
    THEN NoTrip(Err(LoggedOut))
    ELSE IF alias = None /\ title = None
    THEN NoTrip(Err(UsageError))
    ELSE Attach(apipost(Api(h.client), <<"/collections">>, "Collection",
                        CollectionParameters(alias, title), o),
                h.client)

\* CollectionHandler::create
CollectionCreateTrip(h, alias, title, o) ==
    IF alias = None /\ title = None
    THEN NoTrip(Err(UsageError))
    ELSE IF ~is_authenticated(h.client)
    THEN NoTrip(Err(LoggedOut))
    ELSE Attach(apipost(Api(h.client), <<"/collections">>, "Collection",
                        CollectionParameters(alias, title), o),
                h.client)

\* CollectionHandler::get
CollectionGetTrip(h, alias, o) ==
    Attach(get(Api(h.client), <<"/collections/", alias>>, "Collection", o),
           h.client)

\* A faulty variant of PostGetTrip: the handler works with the Client it was
\* derived from as that Client is now, not with its own copy
PostGetTripLive(h, id, o) ==
    Attach(get(Api(client), <<"/posts/", id>>, "Post", o), client)

\* PostHandler::get
PostGetTrip(h, id, o) ==
    Attach(get(Api(h.client), <<"/posts/", id>>, "Post", o), h.client)

CollectionOutcomes == Outcomes({CollectionJson(c) : c \in ServerCollections})

PostOutcomes == Outcomes({PostJson(p) : p \in ServerPosts})

\* The caller keeps the Collection a handler returns
KeepCollection(op, self, args, trip) ==
    /\ coll' = IF IsOk(trip.result) THEN trip.result.value ELSE coll
    /\ reqs' = trip.sent
    /\ last' = Last(op, self, args, trip)
    /\ UNCHANGED <<client, postHandler, collHandler, post>>

\* The caller keeps the Post a handler returns
KeepPost(op, self, args, trip) ==
    /\ post' = IF IsOk(trip.result) THEN trip.result.value ELSE post
    /\ reqs' = trip.sent
    /\ last' = Last(op, self, args, trip)
    /\ UNCHANGED <<client, postHandler, collHandler, coll>>

CollectionHandlerCreate ==
    \E alias \in OptAliases, title \in OptTitles, o \in CollectionOutcomes :
        KeepCollection("CollectionHandler.create", collHandler, <<alias, title>>,
                       CollectionCreateTrip(collHandler, alias, title, o))

CollectionHandlerGet ==
    \E alias \in Aliases, o \in CollectionOutcomes :
        KeepCollection("CollectionHandler.get", collHandler, <<alias>>,
                       CollectionGetTrip(collHandler, alias, o))

PostIds == {"p1"}

PostHandlerGet ==
    \E id \in PostIds, o \in PostOutcomes :
        KeepPost("PostHandler.get", postHandler, <<id>>,
                 PostGetTrip(postHandler, id, o))

\* The Client and the CollectionHandler derived from it
CollectionHandlerNext ==
    \/ AuthenticateToken
    \/ AuthenticateLogin
    \/ Logout
    \/ Collections
    \/ CollectionHandlerCreate
    \/ CollectionHandlerGet

CollectionHandlerSpec == Init /\ [][CollectionHandlerNext]_vars

\* The Client and the PostHandler derived from it
PostHandlerNext ==
    \/ AuthenticateToken
    \/ AuthenticateLogin
    \/ Logout
    \/ Posts
    \/ PostHandlerGet

PostHandlerSpec == Init /\ [][PostHandlerNext]_vars

----------------------------------------------------------------------------
(* Models of batch operations *)

\* All sequences over S of length at most n
SeqsUpTo(S, n) == UNION {[1..k -> S] : k \in 0..n}

\* Per-item move results the server can answer with: a moved post, a moved
\* post whose JSON carries a client and an error_msg as well, and an error.
WireMoveResults ==
    {WireResult(200, Some(NewPost(None, "p1", None, None)), None),
     WireResult(200, Some(NewPost(Some(ForeignClient), "p2", None, None)), Some("moved")),
     WireResult(404, None, Some("not found"))}

\* Per-item pin results the server can answer with
WirePinResults ==
    {WireResult(200, Some("p1"), None), WireResult(404, None, Some("not found"))}

\* An item with neither payload nor error_msg decodes as neither variant
MalformedResults == ArrayJson(<<WireResult(200, None, None)>>)

MoveOutcomes ==
    Outcomes({ArrayJson(rs) : rs \in SeqsUpTo(WireMoveResults, MaxItems)}
             \cup {MalformedResults})

PinOutcomes ==
    Outcomes({ArrayJson(rs) : rs \in SeqsUpTo(WirePinResults, MaxItems)}
             \cup {MalformedResults})

\* PinPost::new; postion is skipped in the JSON when None
PinPostNew(id) == [id |-> id, postion |-> None]

\* Batches a caller submits
MoveBatches == {[i \in 1..n |-> MovePostNew("p1")] : n \in 0..MaxItems}

PinBatches == {[i \in 1..n |-> PinPostNew("p1")] : n \in 0..MaxItems}

UnpinBatches == {[i \in 1..n |-> "p1"] : n \in 0..MaxItems}

----------------------------------------------------------------------------
(* Collection *)

\* The closure of take_posts: a Success gets the Client attached and is
\* tagged Ok, an Error is tagged Err
TagMoveResult(r, c) ==
    IF r.variant = "Success"
    THEN Ok(Success(r.code, with_client(r.payload, c)))
    ELSE Err(Error(r.code, r.error_msg))

\* The closure of pin_posts and unpin_posts
TagPinResult(r) ==
    IF r.variant = "Success"
    THEN Ok(Success(r.code, r.payload))
    ELSE Err(Error(r.code, r.error_msg))

\* models::CollectionUpdate as sent: client and alias are skipped
SerializeCollectionUpdate(u) == [title |-> u.title]

\* Collection::update
CollectionUpdateTrip(self, update, o) ==
    IF IsSome(self.client)
    THEN Attach(apipost(Api(self.client[1]), <<"/collections/", self.alias>>,
                        "Collection", SerializeCollectionUpdate(update), o),
                self.client[1])
    ELSE NoTrip(Err(UsageError))

\* Collection::delete
CollectionDeleteTrip(self, o) ==
    IF IsSome(self.client)
    THEN delete(Api(self.client[1]), <<"/collections/", self.alias>>, o)
    ELSE NoTrip(Err(UsageError))

\* Collection::get_posts
GetPostsTrip(self, o) ==
    IF IsSome(self.client)
    THEN LET trip == get(Api(self.client[1]),
                         <<"/collections/", self.alias, "/posts">>, "Vec<Post>", o) IN
         IF IsOk(trip.result)
         THEN [trip EXCEPT !.result =
                  Ok([i \in 1..Len(trip.result.value) |->
                         with_client(trip.result.value[i], self.client[1])])]
         ELSE trip
    ELSE NoTrip(Err(UsageError))

\* Collection::get_post
GetPostTrip(self, slug, o) ==
    IF IsSome(self.client)
    THEN Attach(get(Api(self.client[1]),
                    <<"/collections/", self.alias, "/posts/", slug>>, "Post", o),
                self.client[1])
    ELSE NoTrip(Err(UsageError))

\* A faulty variant of TakePostsTrip: the Ok and Err outcomes are collected apart,
\* the Ok ones first
TakePostsTripPartitioned(self, posts, o) ==
    IF IsSome(self.client)
    THEN LET trip == apipost(Api(self.client[1]),
                             <<"/collections/", self.alias, "/collect">>,
                             "Vec<MoveResult>", posts, o) IN
         IF IsOk(trip.result)
         THEN LET tagged == [i \in 1..Len(trip.result.value) |->
                                TagMoveResult(trip.result.value[i], self.client[1])]
              IN  [trip EXCEPT !.result =
                      Ok(SelectSeq(tagged, IsOk) \o SelectSeq(tagged, IsErr))]
         ELSE trip
    ELSE NoTrip(Err(UsageError))

\* Collection::take_posts
TakePostsTrip(self, posts, o) ==
    IF IsSome(self.client)
    THEN LET trip == apipost(Api(self.client[1]),
                             <<"/collections/", self.alias, "/collect">>,
                             "Vec<MoveResult>", posts, o) IN
         IF IsOk(trip.result)
         THEN [trip EXCEPT !.result =
                  Ok([i \in 1..Len(trip.result.value) |->
                         TagMoveResult(trip.result.value[i], self.client[1])])]
         ELSE trip
    ELSE NoTrip(Err(UsageError))

\* The body shared by pin_posts and unpin_posts
PinTrip(self, verb, body, o) ==
    IF IsSome(self.client)
    THEN LET trip == apipost(Api(self.client[1]),
                             <<"/collections/", self.alias, verb>>,
                             "Vec<PinResult>", body, o) IN
         IF IsOk(trip.result)
         THEN [trip EXCEPT !.result =
                  Ok([i \in 1..Len(trip.result.value) |->
                         TagPinResult(trip.result.value[i])])]
         ELSE trip
    ELSE NoTrip(Err(UsageError))

\* Collection::pin_posts
PinPostsTrip(self, posts, o) == PinTrip(self, "/pin", posts, o)

\* Collection::unpin_posts: each id becomes PinPost::new(id)
UnpinPostsTrip(self, ids, o) ==
    PinTrip(self, "/unpin", [i \in 1..Len(ids) |-> PinPostNew(ids[i])], o)

\* models::CollectionUpdate::update
CollectionUpdateSelfTrip(self, o) ==
    IF IsSome(self.client)
    THEN IF IsSome(self.alias)
         THEN Attach(apipost(Api(self.client[1]), <<"/collections/", self.alias[1]>>,
                             "Collection", SerializeCollectionUpdate(self), o),
                     self.client[1])
         ELSE NoTrip(Err(UsageError))
    ELSE NoTrip(Err(UsageError))

----------------------------------------------------------------------------
(* Post and the drafts *)

\* models::PostUpdate, and what is sent of it: client and id are skipped
NewPostUpdate(c, id, body) == [client |-> c, id |-> id, token |-> None, body |-> body]

SerializePostUpdate(u) == [token |-> u.token, body |-> u.body]

\* models::PostCreation, and what is sent of it: client and collection are skipped
NewPostCreation(c, collection, body) ==
    [client |-> c, collection |-> collection, body |-> body, title |-> None]

SerializePostCreation(d) == [body |-> d.body, title |-> d.title]

\* models::CollectionUpdate
NewCollectionUpdate(c, alias) == [client |-> c, alias |-> alias, title |-> Some("title")]

\* Post::update
PostUpdateTrip(self, update, o) ==
    IF IsSome(self.client)
    THEN Attach(apipost(Api(self.client[1]), <<"/posts/", self.id>>, "Post",
                        SerializePostUpdate(update), o),
                self.client[1])
    ELSE NoTrip(Err(UsageError))

\* A faulty variant of PostDeleteTrip: the post's token goes into the query
\* whenever the post holds one
PostDeleteTripAlwaysToken(self, o) ==
    IF IsSome(self.client)
    THEN LET c == self.client[1]
             r == request(Api(c), <<"/posts/", self.id>>, "DELETE", o.http_ok)
         IN  IF IsOk(r)
             THEN SendAndExtract(
                      IF IsSome(self.token)
                      THEN WithQuery(r.value, <<"token", self.token[1]>>)
                      ELSE r.value,
                      "()", o)
             ELSE NoTrip(Panic)
    ELSE NoTrip(Err(UsageError))

\* Post::delete: the request is built with request(..).unwrap(), the
\* post's own token goes into the query when the Client holds none, and
\* the response goes through extract_response::<()>
PostDeleteTrip(self, o) ==
    IF IsSome(self.client)
    THEN LET c == self.client[1]
             r == request(Api(c), <<"/posts/", self.id>>, "DELETE", o.http_ok)
         IN  IF IsOk(r)
             THEN SendAndExtract(
                      IF ~is_authenticated(c) /\ IsSome(self.token)
                      THEN WithQuery(r.value, <<"token", self.token[1]>>)
                      ELSE r.value,
                      "()", o)
             ELSE NoTrip(Panic)
    ELSE NoTrip(Err(UsageError))

\* The MoveResult inside a tagged outcome
Untag(item) == IF IsOk(item) THEN item.value ELSE item.error

\* A faulty variant of PostMoveToTrip: a per-item Error is returned as an ApiError
PostMoveToTripErrorAsFailure(self, collection, o1, o2) ==
    IF IsSome(self.client)
    THEN LET c == self.client[1]
             found == CollectionGetTrip(HandlerNew(c), collection, o1)
         IN  IF IsOk(found.result)
             THEN LET item == IF is_authenticated(c)
                              THEN MovePostNew(self.id)
                              ELSE MovePost(self.id, self.token)
                      moved == TakePostsTrip(found.result.value, <<item>>, o2)
                  IN  Trip(IF IsOk(moved.result)
                           THEN IF Len(moved.result.value) >= 1
                                   /\ IsOk(moved.result.value[1])
                                THEN Ok(Untag(moved.result.value[1]))
                                ELSE Err(UnknownError)
                           ELSE moved.result,
                           found.sent \o moved.sent,
                           found.got \o moved.got)
             ELSE found
    ELSE NoTrip(Err(UsageError))

\* A faulty variant of PostMoveToTrip: the move is attempted whether or not
\* the collection was found
PostMoveToTripBlind(self, collection, o1, o2) ==
    IF IsSome(self.client)
    THEN LET c == self.client[1]
             found == CollectionGetTrip(HandlerNew(c), collection, o1)
             target == IF IsOk(found.result)
                       THEN found.result.value
                       ELSE NewCollection(Some(c), collection)
             item == IF is_authenticated(c)
                     THEN MovePostNew(self.id)
                     ELSE MovePost(self.id, self.token)
             moved == TakePostsTrip(target, <<item>>, o2)
         IN  Trip(IF IsOk(moved.result)
                  THEN IF Len(moved.result.value) >= 1
                       THEN Ok(Untag(moved.result.value[1]))
                       ELSE Err(UnknownError)
                  ELSE moved.result,
                  found.sent \o moved.sent,
                  found.got \o moved.got)
    ELSE NoTrip(Err(UsageError))

\* Post::move_to: client.collections().get(collection), then take_posts
\* on the Collection found with this post as the only item
PostMoveToTrip(self, collection, o1, o2) ==
    IF IsSome(self.client)
    THEN LET c == self.client[1]
             found == CollectionGetTrip(HandlerNew(c), collection, o1)
         IN  IF IsOk(found.result)
             THEN LET item == IF is_authenticated(c)
                              THEN MovePostNew(self.id)
                              ELSE MovePost(self.id, self.token)
                      moved == TakePostsTrip(found.result.value, <<item>>, o2)
                  IN  Trip(IF IsOk(moved.result)
                           THEN IF Len(moved.result.value) >= 1
                                THEN Ok(Untag(moved.result.value[1]))
                                ELSE Err(UnknownError)
                           ELSE moved.result,
                           found.sent \o moved.sent,
                           found.got \o moved.got)
             ELSE found
    ELSE NoTrip(Err(UsageError))

\* PostHandler::create: a draft that carries the handler's Client
PostHandlerCreate(h, body) == NewPostCreation(Some(h.client), None, body)

\* A faulty variant of PostPublishTrip: the draft's own Client sends the request
PostPublishTripDraftClient(h, draft, o) ==
    LET c == IF IsSome(draft.client) THEN draft.client[1] ELSE h.client IN
    IF IsSome(draft.collection)
    THEN Attach(apipost(Api(c), <<"/collections/", draft.collection[1], "/post">>,
                        "Post", SerializePostCreation(draft), o), c)
    ELSE Attach(apipost(Api(c), <<"/posts">>,
                        "Post", SerializePostCreation(draft), o), c)

\* PostHandler::publish
PostPublishTrip(h, draft, o) ==
    IF IsSome(draft.collection)
    THEN Attach(apipost(Api(h.client),
                        <<"/collections/", draft.collection[1], "/post">>,
                        "Post", SerializePostCreation(draft), o),
                h.client)
    ELSE Attach(apipost(Api(h.client), <<"/posts">>,
                        "Post", SerializePostCreation(draft), o),
                h.client)

\* PostUpdate::update
PostUpdateSelfTrip(self, o) ==
    IF IsSome(self.client)
    THEN Attach(apipost(Api(self.client[1]), <<"/posts/", self.id>>, "Post",
                        SerializePostUpdate(self), o),
                self.client[1])
    ELSE NoTrip(Err(UsageError))

\* A faulty variant of PostCreationPublishTrip: a draft without a Client is
\* published through a Client without a token
PostCreationPublishTripAnonymous(self, o) ==
    LET c == IF IsSome(self.client) THEN self.client[1] ELSE ClientNew(PlainBase) IN
    IF IsSome(self.collection)
    THEN Attach(apipost(Api(c), <<"/collections/", self.collection[1], "/post">>,
                        "Post", SerializePostCreation(self), o), c)
    ELSE Attach(apipost(Api(c), <<"/posts">>,
                        "Post", SerializePostCreation(self), o), c)

\* PostCreation::publish
PostCreationPublishTrip(self, o) ==
    IF IsSome(self.client)
    THEN IF IsSome(self.collection)
         THEN Attach(apipost(Api(self.client[1]),
                             <<"/collections/", self.collection[1], "/post">>,
                             "Post", SerializePostCreation(self), o),
                     self.client[1])
         ELSE Attach(apipost(Api(self.client[1]), <<"/posts">>,
                             "Post", SerializePostCreation(self), o),
                     self.client[1])
    ELSE NoTrip(Err(UsageError))

----------------------------------------------------------------------------
(* Operations on the handles the caller holds *)

\* Clients a handle or a draft can carry
HandleBases == {PlainBase, NotAUrl}

HandleClients == {Client(b, t) : b \in HandleBases, t \in OptTokens}

OptHandleClients == {None} \cup {Some(c) : c \in HandleClients}

DraftClients ==
    {None, Some(Client(PlainBase, None)), Some(Client(PlainBase, Some("t1"))),
     Some(Client(NotAUrl, Some("t1")))}

\* The caller holds a Post and a Collection, built by hand or returned by
\* an earlier fetch, with or without a Client attached.
InitHandles ==
    /\ client = ClientNew(PlainBase)
    /\ postHandler = HandlerNew(client)
    /\ collHandler = HandlerNew(client)
    /\ \E c \in OptHandleClients, t \in {None, Some("pt")} :
          /\ post = NewPost(c, "p1", t, None)
          /\ coll = NewCollection(c, "c1")
    /\ reqs = <<>>
    /\ last = Last("new", client, <<>>, NoTrip(Ok(client)))

\* The operations of a handle take &self: the handle is left as it is and
\* the caller gets a new value.
Report(op, self, args, trip) ==
    /\ reqs' = trip.sent
    /\ last' = Last(op, self, args, trip)
    /\ UNCHANGED <<client, postHandler, collHandler, post, coll>>

PostArrays ==
    {ArrayJson(<<>>),
     ArrayJson(<<PostJson(NewPost(None, "p1", None, None))>>),
     ArrayJson(<<PostJson(NewPost(Some(ForeignClient), "p2", None, None)),
                 PostJson(NewPost(None, "p1", None, None))>>)}

PostUpdate ==
    \E o \in PostOutcomes :
        Report("Post.update", post, <<NewPostUpdate(None, post.id, "b")>>,
               PostUpdateTrip(post, NewPostUpdate(None, post.id, "b"), o))

PostDelete ==
    \E o \in PostOutcomes :
        Report("Post.delete", post, <<>>, PostDeleteTrip(post, o))

PostMoveTo ==
    \E alias \in Aliases, o1 \in CollectionOutcomes,
       o2 \in Outcomes({ArrayJson(rs) : rs \in SeqsUpTo(WireMoveResults, 2)}) :
        Report("Post.move_to", post, <<alias>>, PostMoveToTrip(post, alias, o1, o2))

CollectionUpdate ==
    \E o \in CollectionOutcomes :
        Report("Collection.update", coll, <<NewCollectionUpdate(None, None)>>,
               CollectionUpdateTrip(coll, NewCollectionUpdate(None, None), o))

CollectionDelete ==
    \E o \in Outcomes({}) :
        Report("Collection.delete", coll, <<>>, CollectionDeleteTrip(coll, o))

CollectionGetPosts ==
    \E o \in Outcomes(PostArrays) :
        Report("Collection.get_posts", coll, <<>>, GetPostsTrip(coll, o))

CollectionGetPost ==
    \E slug \in {"slug"}, o \in PostOutcomes :
        Report("Collection.get_post", coll, <<slug>>, GetPostTrip(coll, slug, o))

CollectionTakePosts ==
    \E posts \in MoveBatches, o \in MoveOutcomes :
        Report("Collection.take_posts", coll, <<posts>>, TakePostsTrip(coll, posts, o))

CollectionPinPosts ==
    \E posts \in PinBatches, o \in PinOutcomes :
        Report("Collection.pin_posts", coll, <<posts>>, PinPostsTrip(coll, posts, o))

CollectionUnpinPosts ==
    \E ids \in UnpinBatches, o \in PinOutcomes :
        Report("Collection.unpin_posts", coll, <<ids>>, UnpinPostsTrip(coll, ids, o))

PostUpdateUpdate ==
    \E c \in DraftClients, o \in PostOutcomes :
        Report("PostUpdate.update", NewPostUpdate(c, "p1", "b"), <<>>,
               PostUpdateSelfTrip(NewPostUpdate(c, "p1", "b"), o))

PostCreationPublish ==
    \E c \in DraftClients, collection \in OptAliases, o \in PostOutcomes :
        Report("PostCreation.publish", NewPostCreation(c, collection, "b"), <<>>,
               PostCreationPublishTrip(NewPostCreation(c, collection, "b"), o))

CollectionUpdateUpdate ==
    \E c \in DraftClients, alias \in OptAliases, o \in CollectionOutcomes :
        Report("CollectionUpdate.update", NewCollectionUpdate(c, alias), <<>>,
               CollectionUpdateSelfTrip(NewCollectionUpdate(c, alias), o))

HandleNext ==
    \/ PostUpdate
    \/ PostDelete
    \/ PostMoveTo
    \/ CollectionUpdate
    \/ CollectionDelete
    \/ CollectionGetPosts
    \/ CollectionGetPost
    \/ CollectionTakePosts
    \/ CollectionPinPosts
    \/ CollectionUnpinPosts
    \/ PostUpdateUpdate
    \/ PostCreationPublish
    \/ CollectionUpdateUpdate

HandleSpec == InitHandles /\ [][HandleNext]_vars

UserOutcomes == Outcomes({UserJson(u) : u \in ServerUsers})

UserHandlerNew ==
    \E o \in UserOutcomes :
        Report("UserHandler.new", client, <<>>, UserHandlerNewTrip(client, o))

ClientUser ==
    \E o \in UserOutcomes :
        Report("user", client, <<>>, ClientUserTrip(client, o))

\* The Client and the UserHandlers made of it
UserNext ==
    \/ AuthenticateToken
    \/ AuthenticateLogin
    \/ Logout
    \/ UserHandlerNew
    \/ ClientUser

UserSpec == Init /\ [][UserNext]_vars

\* Drafts handed to PostHandler::publish: made by the handler's create, or
\* built by hand with another Client or none
PublishDrafts(h) ==
    {PostHandlerCreate(h, "b")}
    \cup {NewPostCreation(c, collection, "b") :
             c \in {None, Some(Client(PlainBase, Some("t2")))},
             collection \in OptAliases}

PostHandlerPublish ==
    \E draft \in PublishDrafts(postHandler), o \in PostOutcomes :
        Report("PostHandler.publish", postHandler, <<draft>>,
               PostPublishTrip(postHandler, draft, o))

\* The two ways of publishing a draft
PublishNext ==
    \/ AuthenticateToken
    \/ AuthenticateLogin
    \/ Logout
    \/ Posts
    \/ PostHandlerPublish
    \/ PostCreationPublish

PublishSpec == Init /\ [][PublishNext]_vars

\* A Client, the PostHandler derived from it, the Post the handler
\* returns and an operation of that Post
SnapshotNext ==
    \/ AuthenticateToken
    \/ AuthenticateLogin
    \/ Logout
    \/ Posts
    \/ PostHandlerGet
    \/ PostDelete

SnapshotSpec == Init /\ [][SnapshotNext]_vars

\* Every operation, from a new Client
Next ==
    \/ SessionNext
    \/ Posts
    \/ Collections
    \/ CollectionHandlerCreate
    \/ CollectionHandlerGet
    \/ PostHandlerGet
    \/ PostHandlerPublish
    \/ UserHandlerNew
    \/ ClientUser
    \/ HandleNext

Spec == Init /\ [][Next]_vars

----------------------------------------------------------------------------
(* Properties of the Client *)

\* C1: logout on a Client with no token returns LoggedOut, sends no
\* request and leaves the Client's base URL and token as they were.
C1_LogoutWithoutToken ==
    (last.op = "logout" /\ last.self.token = None) =>
        /\ last.result = Err(LoggedOut)
        /\ reqs = <<>>
        /\ last.got = <<>>
        /\ client = last.self

C1_Witness == last.op = "logout" /\ last.self.token = None

\* The login exchange succeeded: a response was delivered with a success
\* status and a readable body holding an envelope around a login payload.
LoginSucceeded ==
    /\ Len(last.got) = 1
    /\ ~IsErrorStatus(last.got[1].status)
    /\ last.got[1].readable
    /\ last.got[1].text.shape = "envelope"
    /\ last.got[1].text.data.json = "login"

\* The body of a delivered success response could not be read to its end
BodyUnreadable ==
    /\ Len(last.got) = 1
    /\ last.got[1] # NoResponse
    /\ ~IsErrorStatus(last.got[1].status)
    /\ ~last.got[1].readable

C3_RejectedPairIsAuthenticationError ==
    (/\ last.op = "authenticate_login"
     /\ Len(last.got) = 1
     /\ IsErrorStatus(last.got[1].status))
        => last.result = Err(AuthenticationError)

\* C4: a new Client is not authenticated; authenticate with a literal
\* token t succeeds without a request and leaves token() = Some(t); and
\* is_authenticated() holds exactly when a token is present.
C4_TokenAuthentication ==
    /\ last.op = "new" => ~is_authenticated(client)
    /\ last.op = "authenticate_token" =>
          /\ IsOk(last.result)
          /\ reqs = <<>>
          /\ last.got = <<>>
          /\ ClientToken(client) = Some(last.args[1])
          /\ last.result.value = client
    /\ is_authenticated(client) <=> ClientToken(client) # None

C4_Witness ==
    /\ last.op = "authenticate_token"
    /\ last.self.token # None
    /\ last.self.token # client.token

\* The DELETE of a logout was answered with a status that is no error
LogoutDeleteSucceeded ==
    /\ Len(reqs) = 1
    /\ Len(last.got) = 1
    /\ last.got[1] # NoResponse
    /\ ~IsErrorStatus(last.got[1].status)

\* Every request of the last operation is a DELETE to /auth/me
OnlyDeleteAuthMe ==
    \A i \in 1..Len(reqs) :
        reqs[i].method = "DELETE" /\ reqs[i].endpoint = <<"/auth/me">>

\* What C5 says of the token and of the value returned
LogoutTokenRule ==
    /\ LogoutDeleteSucceeded <=> client.token = None
    /\ LogoutDeleteSucceeded =>
          /\ IsOk(last.result)
          /\ ~is_authenticated(last.result.value)
          /\ last.result.value = client
    /\ ~LogoutDeleteSucceeded => (IsErr(last.result) /\ client = last.self)

\* C5 as stated: logout on an authenticated Client issues exactly one
\* DELETE to /auth/me; the token is cleared iff that request succeeds, and
\* on failure the error is returned and the token retained.
C5_LogoutExactlyOneDelete ==
    (last.op = "logout" /\ last.self.token # None) =>
        /\ Len(reqs) = 1
        /\ OnlyDeleteAuthMe
        /\ LogoutTokenRule

\* C5 as amended: logout on an authenticated Client issues at most one
\* DELETE to /auth/me, and exactly one unless the request cannot be built
\* (the base URL does not compose, or the HTTP client cannot be
\* constructed), when UrlError or UnknownError is returned with no request
\* sent; the token is cleared iff the request succeeds, and on failure the
\* error is returned and the token retained.
C5_LogoutAtMostOneDelete ==
    (last.op = "logout" /\ last.self.token # None) =>
        /\ Len(reqs) <= 1
        /\ OnlyDeleteAuthMe
        /\ Len(reqs) = 0 <=> last.result \in {Err(UrlError), Err(UnknownError)}
        /\ last.result = Err(UrlError) => ~IsOk(url(Api(last.self), <<"/auth/me">>))
        /\ ~IsOk(url(Api(last.self), <<"/auth/me">>)) => Len(reqs) = 0
        /\ LogoutTokenRule

C5_Witness ==
    /\ last.op = "logout"
    /\ last.self.token # None
    /\ Len(reqs) = 1
    /\ IsErr(last.result)
    /\ client.token = last.self.token

\* C7: for every valid base URL and every endpoint, the URL of a request
\* is the string base + "/api" + endpoint.
C7_UrlIsConcatenation ==
    \A i \in 1..Len(reqs) :
        reqs[i].snap.base_url \in ValidBases =>
            reqs[i].url = reqs[i].snap.base_url \o ApiPrefix \o reqs[i].endpoint

----------------------------------------------------------------------------
(* Properties of the handlers *)

\* C6: CollectionHandler.create sends a request only when an alias or a
\* title is supplied and the handler's Client is authenticated: with both
\* absent it fails with UsageError, authenticated or not; otherwise with
\* no token it fails with LoggedOut; neither failure sends a request.
C6_CollectionCreateGuards ==
    last.op = "CollectionHandler.create" =>
        LET bothAbsent == last.args[1] = None /\ last.args[2] = None
            loggedOut == last.self.client.token = None
        IN  /\ bothAbsent => (last.result = Err(UsageError) /\ reqs = <<>>)
            /\ (~bothAbsent /\ loggedOut) =>
                  (last.result = Err(LoggedOut) /\ reqs = <<>>)
            /\ reqs # <<>> => (~bothAbsent /\ ~loggedOut)

C6_Witness ==
    /\ last.op = "CollectionHandler.create"
    /\ last.args = <<None, None>>
    /\ last.self.client.token = None
    /\ last.result = Err(UsageError)

\* The Client snapshot the last operation works with: the Client itself
\* for authenticate and logout, the handler's Client for a handler.
SnapshotOfLast ==
    IF last.op \in {"authenticate_login", "logout"}
    THEN last.self
    ELSE last.self.client

\* C8: a request carries the header Authorization: Token <t> iff the
\* Client snapshot it is built from holds a token, t being that token; a
\* request built from a snapshot without a token carries no such header.
C8_AuthorizationHeader ==
    \A i \in 1..Len(reqs) :
        /\ reqs[i].snap = SnapshotOfLast
        /\ IsSome(SnapshotOfLast.token) =>
              reqs[i].auth = Some(<<"Token ", SnapshotOfLast.token[1]>>)
        /\ SnapshotOfLast.token = None => reqs[i].auth = None

C8_Witness ==
    /\ last.op = "CollectionHandler.get"
    /\ Len(reqs) = 1
    /\ reqs[1].auth # None
    /\ client.token # last.self.client.token

----------------------------------------------------------------------------
(* Properties of the handles *)

\* The network operations of Post, Collection and the drafts
HandleOps ==
    {"Post.update", "Post.delete", "Post.move_to",
     "Collection.update", "Collection.delete", "Collection.get_posts",
     "Collection.get_post", "Collection.take_posts", "Collection.pin_posts",
     "Collection.unpin_posts",
     "PostUpdate.update", "PostCreation.publish", "CollectionUpdate.update"}

\* C9: on a Post, Collection, PostUpdate, PostCreation or CollectionUpdate
\* with no Client attached, every network operation fails with UsageError
\* and sends no request.
C9_NoClientIsUsageError ==
    (last.op \in HandleOps /\ last.self.client = None) =>
        /\ last.result = Err(UsageError)
        /\ reqs = <<>>
        /\ last.got = <<>>

C9_Witness ==
    /\ last.op = "PostCreation.publish"
    /\ last.self.client = None
    /\ last.result = Err(UsageError)

\* The server answered the last request with an array of per-item results,
\* each of the Success or of the Error shape
AnsweredWithResults ==
    /\ Len(last.got) = 1
    /\ ~IsErrorStatus(last.got[1].status)
    /\ last.got[1].readable
    /\ last.got[1].text.shape = "envelope"
    /\ last.got[1].text.data.json = "array"
    /\ \A i \in 1..Len(last.got[1].text.data.items) :
          /\ last.got[1].text.data.items[i].json = "result"
          /\ \/ IsSome(last.got[1].text.data.items[i].payload)
             \/ IsSome(last.got[1].text.data.items[i].error_msg)

\* C10: take_posts with N items, answered with N per-item results, returns
\* N tagged outcomes in the server's order: outcome i is Ok for a Success
\* result i, its Post carrying the Collection's Client, and Err for an
\* Error result i, code and message preserved.
C10_TakePostsOutcomes ==
    (/\ last.op = "Collection.take_posts"
     /\ AnsweredWithResults
     /\ Len(last.got[1].text.data.items) = Len(last.args[1]))
        =>
        LET items == last.got[1].text.data.items
            N == Len(last.args[1])
        IN  /\ IsOk(last.result)
            /\ Len(last.result.value) = N
            /\ \A i \in 1..N :
                  IF IsSome(items[i].payload)
                  THEN /\ IsOk(last.result.value[i])
                       /\ last.result.value[i].value.variant = "Success"
                       /\ last.result.value[i].value.code = items[i].code
                       /\ last.result.value[i].value.payload.id = items[i].payload[1].id
                       /\ last.result.value[i].value.payload.client = last.self.client
                  ELSE /\ IsErr(last.result.value[i])
                       /\ last.result.value[i].error =
                             Error(items[i].code, items[i].error_msg[1])

C10_Witness ==
    /\ last.op = "Collection.take_posts"
    /\ AnsweredWithResults
    /\ Len(last.args[1]) = 2
    /\ IsOk(last.result)
    /\ Len(last.result.value) = 2
    /\ IsErr(last.result.value[1])
    /\ IsOk(last.result.value[2])
    /\ last.got[1].text.data.items[2].payload[1].client = Some(ForeignClient)
    /\ last.result.value[2].value.payload.client = last.self.client

\* A delivered response whose status is no error answered the only
\* request of the last operation
AnsweredWithSuccessStatus ==
    /\ Len(reqs) = 1
    /\ Len(last.got) = 1
    /\ last.got[1] # NoResponse
    /\ ~IsErrorStatus(last.got[1].status)

\* C11: every delete operation (logout's DELETE, Collection.delete and
\* Post.delete) skips envelope unwrapping: once the status of the response
\* is a success status it returns success with no value, whatever the body
\* is (unreadable, empty, or no {code, data} envelope).
C11_DeletesSkipEnvelope ==
    (/\ last.op \in {"logout", "Collection.delete", "Post.delete"}
     /\ AnsweredWithSuccessStatus)
        => /\ IsOk(last.result)
           /\ last.op # "logout" => last.result = Ok(Unit)

\* C12: the DELETE of Post.delete carries the post's own token as the
\* query parameter `token` iff the attached Client holds no token and the
\* post holds one; with an authenticated Client the query is empty and the
\* Authorization header carries the Client's token.
C12_DeleteTokenQuery ==
    last.op = "Post.delete" =>
        \A i \in 1..Len(reqs) :
            LET c == last.self.client[1] IN
            /\ reqs[i].method = "DELETE"
            /\ IF ~is_authenticated(c) /\ IsSome(last.self.token)
               THEN reqs[i].query = Some(<<"token", last.self.token[1]>>)
               ELSE reqs[i].query = None
            /\ is_authenticated(c) =>
                  /\ reqs[i].query = None
                  /\ reqs[i].auth = Some(<<"Token ", c.token[1]>>)
            /\ ~is_authenticated(c) => reqs[i].auth = None

C12_Witness ==
    /\ last.op = "Post.delete"
    /\ Len(reqs) = 1
    /\ last.self.token = Some("pt")
    /\ last.self.client[1].token = None
    /\ reqs[1].query = Some(<<"token", "pt">>)

----------------------------------------------------------------------------
(* Properties of Client values and of the snapshots taken of them *)

SessionOps == {"authenticate_token", "authenticate_login", "logout"}

\* C13 as stated: authenticate and logout leave the Client they are called
\* on with the token it had before the call; the change is in the returned
\* Client only.
C13_CalledClientKeepsToken ==
    last.op \in SessionOps => client.token = last.self.token

\* C13 as amended: authenticate and logout assign the token of the Client
\* they are called on: after a successful call that Client holds the new
\* token and equals the Client returned, after a failed call it is what it
\* was before the call; the base URL never changes.
C13_CalledClientIsAssigned ==
    last.op \in SessionOps =>
        /\ IF IsOk(last.result)
           THEN client = last.result.value
           ELSE client = last.self
        /\ client.base_url = last.self.base_url

C13_Witness ==
    /\ last.op = "logout"
    /\ IsOk(last.result)
    /\ last.self.token # None
    /\ client.token = None
    /\ last.result.value.token = None

\* C14: a handler, an Api wrapper and a handle hold a copy of the Client
\* taken when they are derived: authenticate and logout on the Client
\* change no handler and no handle; a handler's requests carry the token
\* the handler was derived with and the handle it returns carries the
\* handler's copy; a handle's requests carry the token of the handle's copy.
C14_SnapshotsKeepToken ==
    [][/\ last'.op \in SessionOps =>
             UNCHANGED <<postHandler, collHandler, post, coll>>
       /\ last'.op = "posts" =>
             (postHandler'.client = client /\ UNCHANGED <<client, post>>)
       /\ last'.op = "PostHandler.get" =>
             /\ UNCHANGED <<client, postHandler>>
             /\ IsOk(last'.result) => post'.client = Some(postHandler.client)
             /\ \A i \in 1..Len(reqs') :
                   /\ reqs'[i].snap = postHandler.client
                   /\ reqs'[i].auth = AuthHeader(Api(postHandler.client))
       /\ last'.op = "Post.delete" =>
             /\ UNCHANGED <<client, postHandler, post>>
             /\ \A i \in 1..Len(reqs') :
                   /\ reqs'[i].snap = post.client[1]
                   /\ reqs'[i].auth = AuthHeader(Api(post.client[1]))
      ]_vars

\* A Post fetched through a handler derived while the Client held t1 sends
\* t1 after the Client has logged out
C14_Witness ==
    /\ last.op = "Post.delete"
    /\ Len(reqs) = 1
    /\ reqs[1].auth = Some(<<"Token ", "t1">>)
    /\ post.client = Some(postHandler.client)
    /\ postHandler.client.token = Some("t1")
    /\ client.token = None

----------------------------------------------------------------------------
(* Properties of the round trips of an operation *)

\* Round trip i of the last operation failed in the transport or was
\* answered with an error status
RoundTripFailed(i) ==
    \/ last.got[i] = NoResponse
    \/ IsErrorStatus(last.got[i].status)

\* C15: an operation sends at most one request, Post.move_to at most two;
\* no request follows a round trip that failed and none is sent twice, and
\* the failure of a round trip is what the operation returns (the making
\* of a UserHandler returns the handler instead).
C15_AtMostOneRequest ==
    /\ Len(reqs) <= IF last.op = "Post.move_to" THEN 2 ELSE 1
    /\ Len(last.got) = Len(reqs)
    /\ \A i \in 1..Len(reqs) :
          /\ RoundTripFailed(i) =>
                /\ i = Len(reqs)
                /\ last.result =
                      IF last.op \in {"UserHandler.new", "user"}
                      THEN Ok(UserHandler(last.self, None))
                      ELSE IF last.got[i] = NoResponse
                      THEN Err(ConnectionError)
                      ELSE Err(RequestErr(last.got[i].status))
          /\ \A j \in 1..Len(reqs) : i # j => reqs[i] # reqs[j]

C15_Witness ==
    /\ last.op = "Post.move_to"
    /\ Len(reqs) = 2
    /\ last.got[2] = NoResponse
    /\ last.result = Err(ConnectionError)

----------------------------------------------------------------------------
(* Properties of the UserHandler *)

\* The GET /me of the last operation was answered with a user
UserFetched ==
    /\ AnsweredWithSuccessStatus
    /\ last.got[1].readable
    /\ last.got[1].text.shape = "envelope"
    /\ last.got[1].text.data.json = "user"

\* C16: UserHandler::new always returns a handler.  With an authenticated
\* Client it sends one GET /me (none when the request cannot be built, which
\* is one of the failures of the request); it caches the user returned on
\* success and, on any failure of the request, returns the handler with an
\* empty cache.  With an unauthenticated Client it sends no request and
\* the cache is empty.
C16_UserHandlerAlwaysConstructs ==
    last.op = "UserHandler.new" =>
        /\ IsOk(last.result)
        /\ last.result.value.client = last.self
        /\ IF is_authenticated(last.self)
           THEN /\ Len(reqs) <= 1
                /\ \A i \in 1..Len(reqs) :
                      reqs[i].method = "GET" /\ reqs[i].endpoint = <<"/me">>
                /\ IF UserFetched
                   THEN info(last.result.value) = Some(last.got[1].text.data.user)
                   ELSE info(last.result.value) = None
           ELSE /\ reqs = <<>>
                /\ info(last.result.value) = None

----------------------------------------------------------------------------
(* Properties of Post.move_to *)

\* What an executor call returns for a response it cannot turn into a value
FailureOf(response) ==
    IF response = NoResponse THEN Err(ConnectionError)
    ELSE IF IsErrorStatus(response.status) THEN Err(RequestErr(response.status))
    ELSE IF ~response.readable THEN Panic
    ELSE Err(ParseError(response.text))

\* Response i of the last operation is a readable success response whose
\* envelope holds JSON of the given kind
Answered(i, kind) ==
    /\ Len(last.got) >= i
    /\ last.got[i] # NoResponse
    /\ ~IsErrorStatus(last.got[i].status)
    /\ last.got[i].readable
    /\ last.got[i].text.shape = "envelope"
    /\ last.got[i].text.data.json = kind

----------------------------------------------------------------------------
(* Properties of failures *)

\* C18: an operation whose Client's base URL does not compose with the
\* endpoint into a URL returns UrlError (UnknownError when the HTTP client
\* cannot be built either) without a panic and without a request, Post.delete
\* included; and no operation ever ends by a panic.
C18_UrlErrorNeverPanic ==
    /\ last.result # Panic
    /\ (/\ last.op \in HandleOps
        /\ IsSome(last.self.client)
        /\ last.result # Err(UsageError)
        /\ ~IsOk(url(Api(last.self.client[1]), <<"/posts/", "p1">>)))
          => /\ last.result \in {Err(UrlError), Err(UnknownError)}
             /\ reqs = <<>>

\* The operations that are one executor get or post: the Client snapshot
\* they work with, their endpoint and the JSON their type decodes from
ExecutorOps == {"authenticate_login", "PostHandler.get"}

ExecutorEndpoint ==
    IF last.op = "authenticate_login"
    THEN <<"/auth/login">>
    ELSE <<"/posts/", last.args[1]>>

ExecutorKind == IF last.op = "authenticate_login" THEN "login" ELSE "post"

\* The typed value of the last operation is the one decoded from the payload
TypedValueReturned ==
    /\ IsOk(last.result)
    /\ IF last.op = "authenticate_login"
       THEN last.result.value.token = Some(last.got[1].text.data.access_token)
       ELSE last.result.value = with_client(last.got[1].text.data.post, SnapshotOfLast)

\* What the stages after URL composition give for the response received
StagesAfterUrl ==
    /\ Len(reqs) = 1
    /\ Len(last.got) = 1
    /\ IF last.got[1] = NoResponse
       THEN last.result = Err(ConnectionError)
       ELSE IF IsErrorStatus(last.got[1].status)
       THEN last.result = Err(RequestErr(last.got[1].status))
       ELSE IF last.got[1].text.shape # "envelope"
       THEN last.result = Err(ParseError(last.got[1].text))
       ELSE IF last.got[1].text.data.json # ExecutorKind
       THEN last.result = Err(ParseError(last.got[1].text))
       ELSE TypedValueReturned

----------------------------------------------------------------------------
(* Properties of publishing *)

PublishOps == {"PostHandler.publish", "PostCreation.publish"}

\* The draft published by the last operation and the Client that sends it:
\* the handler's for PostHandler.publish, the draft's own otherwise
PublishedDraft ==
    IF last.op = "PostHandler.publish" THEN last.args[1] ELSE last.self

PublishSender ==
    IF last.op = "PostHandler.publish"
    THEN Some(last.self.client)
    ELSE last.self.client

PublishEndpoint ==
    IF IsSome(PublishedDraft.collection)
    THEN <<"/collections/", PublishedDraft.collection[1], "/post">>
    ELSE <<"/posts">>

\* Every request of the last operation is the POST of the draft, sent by
\* the sender to the endpoint the collection field selects, and the Post
\* returned carries the sender
PublishRequestsAndResult ==
    /\ \A i \in 1..Len(reqs) :
          /\ reqs[i].method = "POST"
          /\ reqs[i].endpoint = PublishEndpoint
          /\ reqs[i].snap = PublishSender[1]
          /\ reqs[i].body = Some(SerializePostCreation(PublishedDraft))
    /\ IsOk(last.result) =>
          (Len(reqs) = 1 /\ last.result.value.client = PublishSender)

\* C20 as stated: publishing a draft (that has a Client to publish with)
\* sends exactly one POST, to /collections/{collection}/post when the
\* draft names a collection and to /posts otherwise; the Post returned
\* carries the Client that sent the request.
C20_PublishExactlyOnePost ==
    (last.op \in PublishOps /\ IsSome(PublishSender)) =>
        /\ Len(reqs) = 1
        /\ PublishRequestsAndResult

\* C20 as amended: publishing a draft sends at most one request, the POST
\* described, and exactly one unless the request cannot be built (UrlError
\* or UnknownError is returned) or the draft of PostCreation.publish has no
\* Client (UsageError is returned).
C20_PublishAtMostOnePost ==
    last.op \in PublishOps =>
        /\ Len(reqs) <= 1
        /\ Len(reqs) = 0 <=>
              last.result \in {Err(UrlError), Err(UnknownError), Err(UsageError)}
        /\ last.result = Err(UsageError) <=> PublishSender = None
        /\ IsSome(PublishSender) =>
              /\ PublishRequestsAndResult
              /\ last.result = Err(UrlError) =>
                    ~IsOk(url(Api(PublishSender[1]), PublishEndpoint))
              /\ ~IsOk(url(Api(PublishSender[1]), PublishEndpoint)) => Len(reqs) = 0

C20_Witness ==
    /\ last.op = "PostHandler.publish"
    /\ IsOk(last.result)
    /\ last.args[1].collection = Some("c1")
    /\ last.args[1].client # Some(last.self.client)
    /\ reqs[1].endpoint = <<"/collections/", "c1", "/post">>
    /\ last.got[1].text.data.post.client = Some(ForeignClient)
    /\ last.result.value.client = Some(last.self.client)

----------------------------------------------------------------------------
(* Properties of the handles an operation returns *)

\* A returned Post carries the Client c, and so does the Collection in its
\* collection field when there is one
PostCarries(p, c) ==
    /\ p.client = Some(c)
    /\ IsSome(p.collection) => p.collection[1].client = Some(c)

\* C21: every Post and Collection in the result of a successful fetch,
\* create, publish, update or batch operation (the value itself, each
\* element of a list, the payload of each batch Success, and the Collection
\* in the collection field of a returned Post) carries the Client of the
\* handle that performed the operation.
C21_ReturnedHandlesCarryClient ==
    (last.op \in HandleOps /\ IsOk(last.result)) =>
        LET c == last.self.client[1]
            v == last.result.value
        IN  /\ last.op \in {"Post.update", "Collection.get_post",
                            "PostUpdate.update", "PostCreation.publish"} =>
                  PostCarries(v, c)
            /\ last.op \in {"Collection.update", "CollectionUpdate.update"} =>
                  v.client = Some(c)
            /\ last.op = "Collection.get_posts" =>
                  \A i \in 1..Len(v) : PostCarries(v[i], c)
            /\ last.op = "Collection.take_posts" =>
                  \A i \in 1..Len(v) : IsOk(v[i]) => PostCarries(v[i].value.payload, c)

----------------------------------------------------------------------------
(* Properties of batch responses *)

BatchOps == {"Collection.take_posts", "Collection.pin_posts", "Collection.unpin_posts"}

\* C22: a batch response shorter than the request is UnknownError:
\* Post.move_to returns it when the collect response holds no result for
\* its one item, and take_posts, pin_posts and unpin_posts return it when
\* the server answers with fewer results than items submitted.
C22_ShortResponseIsUnknownError ==
    /\ (/\ last.op = "Post.move_to"
        /\ Answered(2, "array")
        /\ Len(last.got[2].text.data.items) = 0)
          => last.result = Err(UnknownError)
    /\ (/\ last.op \in BatchOps
        /\ AnsweredWithResults
        /\ Len(last.got[1].text.data.items) < Len(last.args[1]))
          => last.result = Err(UnknownError)

\* Both round trips of a move_to were answered well: the GET with a
\* collection, the collect POST with an array of per-item results, each of
\* the Success or of the Error shape
MoveAnswered ==
    /\ Answered(1, "collection")
    /\ Answered(2, "array")
    /\ \A i \in 1..Len(last.got[2].text.data.items) :
          /\ last.got[2].text.data.items[i].json = "result"
          /\ \/ IsSome(last.got[2].text.data.items[i].payload)
             \/ IsSome(last.got[2].text.data.items[i].error_msg)

\* C23: when both round trips of Post.move_to succeed and the collect
\* response holds at least one per-item result, move_to returns the first
\* per-item result as its success value, a Success (its Post carrying the
\* Client) and an Error alike; it returns an ApiError only for UsageError
\* (no Client), a failed round trip, or an empty response (UnknownError).
C23_MoveToReturnsFirstResult ==
    last.op = "Post.move_to" =>
        /\ (MoveAnswered /\ Len(last.got[2].text.data.items) >= 1) =>
              LET first == last.got[2].text.data.items[1] IN
              /\ IsOk(last.result)
              /\ IF IsSome(first.payload)
                 THEN last.result.value =
                         Success(first.code,
                                 with_client(first.payload[1], last.self.client[1]))
                 ELSE last.result.value = Error(first.code, first.error_msg[1])
        /\ IsErr(last.result) =>
              \/ last.self.client = None /\ last.result = Err(UsageError)
              \/ Len(reqs) < 2
              \/ ~MoveAnswered
              \/ /\ MoveAnswered
                 /\ Len(last.got[2].text.data.items) = 0
                 /\ last.result = Err(UnknownError)
        /\ last.self.client = None => last.result = Err(UsageError)

C23_Witness ==
    /\ last.op = "Post.move_to"
    /\ MoveAnswered
    /\ Len(last.got[2].text.data.items) = 2
    /\ last.got[2].text.data.items[1].payload = None
    /\ last.got[2].text.data.items[2].payload # None
    /\ last.result = Ok(Error(404, "not found"))

====
